---- MODULE Spec2Model ----
(***************************************************************************)
(* OrangeRed: the RateLimit task pacer (a linked queue of callbacks with   *)
(* priority admission and a paced drain loop), in its two versions:        *)
(*   "fixed"  the fixed-delay RateLimit  (src/unnamed/part_000)            *)
(*   "burst"  the burst-allowance RateLimit (src/src/RateLimit.ts)         *)
(* A state is the limiter's fields, the heap of queue nodes, the active    *)
(* run() invocations with their pending setTimeout, the setInterval of the *)
(* burst version, and a record of what was pushed and what was invoked.    *)
(* The Reddit wrapper (src/unnamed/part_001) is the limiter's one client:  *)
(* its pending authorization states and its api_request calls, each of     *)
(* which pushes its continuation to the shared limiter Reddit.queue.       *)
(***************************************************************************)
EXTENDS Integers, Sequences, FiniteSets, TLC

\* ---------------------------------------------------------------- bounds
MaxPush == 3        \* pushes per behaviour
TickMs == 500       \* largest step by which time advances at once
MaxClock == 1500    \* the observed clock stops counting here
MaxCount == 12      \* largest per_interval a limiter is constructed with
MaxStates == 1      \* authorization states issued per behaviour
MaxAuth == 2        \* auth({state, code}) calls per behaviour
WindowUsed == 28    \* requests Reddit.queue may have released at start-up
MaxLogout == 1      \* logout() calls per behaviour
MaxSessionCalls == 2 \* requests made by a process whose session is followed
ExpiresIn == 120    \* expires_in of an access-token response, in seconds

\* ------------------------------------------------------ program constants
\* limit_after_percent = 0.5, kept as the fraction 1 / 2
limit_after_percent_num == 1
limit_after_percent_den == 2

PerSecondMs == 1000
PerMinuteMs == 60000
PerHourMs == 3600000
PerDayMs == 86400000

\* A JavaScript number is an IEEE 754 double: 53 significant bits.
DoubleBits == 53

\* setTimeout(..., 3_600_000): a pending authorization state lives one hour.
StateExpiryMs == 3600000

Undefined == 0      \* an unset Option<Node>; nodes are numbered from 1
NoTimer == 0 - 1    \* no timer armed

Variants == {"fixed", "burst"}

\* Reddit.queue = new RateLimit('60 per minute'), as (per_interval, interval)
RedditQueue == <<60, "per minute">>

\* The rates a limiter is constructed with here: (per_interval, interval).
RateSpecs == {<<1, "per second">>, <<2, "per second">>, <<4, "per second">>,
              RedditQueue}

VARIABLES
  variant,          \* which version of the class this limiter is
  delay_ms,         \* readonly field
  requests_allowed, \* readonly field (burst); the parsed per_interval
  interval_ms,      \* period of the setInterval (burst)
  nodes,            \* heap: nodes[n] = [fn |-> task, next |-> node or Undefined]
  head, tail, priority_tail,
  is_running,
  requests_made,
  loops,            \* active run() invocations: [pc, timer, task]
  reset_timer,      \* ms until the setInterval callback is due, or NoTimer
  now,              \* observed clock, saturating at MaxClock
  pushed,           \* pushed[t] = [priority, throws, at]: the t-th push call
  invoked,          \* calls of fn(), in order: [task, at, seen, made, delay]:
                    \* the task, the clock, the number of pushes so far, the
                    \* requests_made it was counted as, and the suspension
                    \* that followed its return (NoTimer until it returns)
  push_threw,       \* a push call raised a TypeError
  ctor,             \* the constructor call: [state, args, result]; state is
                    \* "new" before it runs, then "ok" or "threw"
  pending_auth_states, \* keys of Reddit.pending_auth_states
  state_timers,     \* armed expiry timers: state -> ms until due
  states_issued,    \* states returned by auth_url_and_state so far (1..n)
  api_calls,        \* api_request calls: [task, issued, by]: the continuation
                    \* pushed, whether the HTTP request was issued, the caller
  auth_calls,       \* auth({state, code}) calls: [state, accepted, task]
  bearer_token,     \* Undefined, or the api_request call whose response set it
  refresh_token,    \* this._refresh_token: Undefined, or the call that set it
  refresh_timers,   \* armed token-refresh timers: arming call -> ms until due
  refresh_token_timeout, \* the timer handle kept in the field (its arming
                    \* call), Undefined before the first
  logged_out,       \* logout() has returned and auth() was not called since
  logouts           \* logout() calls so far

vars == <<variant, delay_ms, requests_allowed, interval_ms, nodes, head, tail,
          priority_tail, is_running, requests_made, loops, reset_timer, now,
          pushed, invoked, push_threw, ctor, pending_auth_states,
          state_timers, states_issued, api_calls, auth_calls, bearer_token,
          refresh_token, refresh_timers, refresh_token_timeout, logged_out,
          logouts>>

\* The fields of a Reddit instance that time alone does not change.
session == <<bearer_token, refresh_token, refresh_token_timeout, logged_out,
             logouts>>

reddit == <<pending_auth_states, state_timers, states_issued, api_calls,
            auth_calls, session, refresh_timers>>

\* No use of the wrapper so far.
NoReddit ==
  /\ pending_auth_states = {}
  /\ state_timers = << >>
  /\ states_issued = 0
  /\ api_calls = << >>
  /\ auth_calls = << >>
  /\ bearer_token = Undefined
  /\ refresh_token = Undefined
  /\ refresh_timers = << >>
  /\ refresh_token_timeout = Undefined
  /\ logged_out = FALSE
  /\ logouts = 0

config == <<variant, delay_ms, requests_allowed, interval_ms, ctor>>

\* ---------------------------------------------------------- constructor
\* switch (interval): the unit's duration in ms; NoTimer stands for the
\* default branch (throw new Error('Invalid duration')).
IntervalMs(interval) ==
  CASE interval = "per second" -> PerSecondMs
    [] interval = "per minute" -> PerMinuteMs
    [] interval = "per hour" -> PerHourMs
    [] interval = "per day" -> PerDayMs
    [] OTHER -> NoTimer

\* ---- strings: a rate string is a sequence of one-character strings
Units == {"per second", "per minute", "per hour", "per day"}

CharsOf ==
  [u \in Units \cup {"per week", "Spec", ""} |->
     CASE u = "per second" -> <<"p","e","r"," ","s","e","c","o","n","d">>
       [] u = "per minute" -> <<"p","e","r"," ","m","i","n","u","t","e">>
       [] u = "per hour" -> <<"p","e","r"," ","h","o","u","r">>
       [] u = "per day" -> <<"p","e","r"," ","d","a","y">>
       [] u = "per week" -> <<"p","e","r"," ","w","e","e","k">>
       [] u = "Spec" -> <<"S","p","e","c">>
       [] OTHER -> << >>]

Digits == <<"0", "1", "2", "3", "4", "5", "6", "7", "8", "9">>

IsDigit(c) == \E d \in DOMAIN Digits : Digits[d] = c
DigitValue(c) == (CHOOSE d \in DOMAIN Digits : Digits[d] = c) - 1

\* The decimal digits of n >= 0 (how a count is written in a rate string).
RECURSIVE DecimalOf(_)
DecimalOf(n) ==
  IF n < 10 THEN <<Digits[n + 1]>>
  ELSE Append(DecimalOf(n \div 10), Digits[(n % 10) + 1])

RECURSIVE Join(_)
Join(cs) == IF cs = << >> THEN "" ELSE Head(cs) \o Join(Tail(cs))

\* per_interval.split(/ +(.*)/): the text before the first run of spaces,
\* the text after it (the capture), and the empty rest; or the whole text
\* when it has no space.
Split(cs) ==
  LET spaces == {i \in DOMAIN cs : cs[i] = " "}
      first == CHOOSE i \in spaces : \A j \in spaces : i <= j
      after == {i \in DOMAIN cs : i > first /\ cs[i] # " "}
      rest == CHOOSE i \in after : \A j \in after : i <= j
  IN
  IF spaces = {} THEN <<cs>>
  ELSE <<SubSeq(cs, 1, first - 1),
         IF after = {} THEN << >> ELSE SubSeq(cs, rest, Len(cs)),
         << >>>>

\* parseInt(text, 10) of a text without leading white space: an optional
\* sign and the leading digits; NaN when there is no digit.
RECURSIVE DigitsValue(_, _)
DigitsValue(cs, acc) ==
  IF cs = << >> \/ ~IsDigit(Head(cs)) THEN acc
  ELSE DigitsValue(Tail(cs), 10 * acc + DigitValue(Head(cs)))

ParseInt(cs) ==
  LET signed == cs # << >> /\ Head(cs) \in {"-", "+"}
      body == IF signed THEN Tail(cs) ELSE cs
  IN
  IF body = << >> \/ ~IsDigit(Head(body)) THEN [nan |-> TRUE, value |-> 0]
  ELSE [nan |-> FALSE,
        value |-> IF signed /\ Head(cs) = "-" THEN 0 - DigitsValue(body, 0)
                  ELSE DigitsValue(body, 0)]

\* ---- numbers: the double a / b for integers a > 0, b > 0, as its integer
\* part `whole` and the bits of its fraction `frac` (most significant
\* first, no trailing zero), of kind "finite".
RECURSIVE BitLen(_)
BitLen(n) == IF n = 0 THEN 0 ELSE 1 + BitLen(n \div 2)

\* Zero bits at the start of the binary fraction rem / b (0 < rem < b).
RECURSIVE LeadingZeros(_, _)
LeadingZeros(rem, b) ==
  IF 2 * rem >= b THEN 0 ELSE 1 + LeadingZeros(2 * rem, b)

\* The first n bits of the binary fraction rem / b.
RECURSIVE FracBits(_, _, _)
FracBits(rem, b, n) ==
  IF n = 0 THEN << >>
  ELSE <<(2 * rem) \div b>> \o FracBits((2 * rem) % b, b, n - 1)

\* What is left of rem / b below its first n bits, as a remainder of b.
RECURSIVE RemAfter(_, _, _)
RemAfter(rem, b, n) == IF n = 0 THEN rem ELSE RemAfter((2 * rem) % b, b, n - 1)

RECURSIVE Trim(_)
Trim(bits) ==
  IF bits # << >> /\ bits[Len(bits)] = 0
    THEN Trim(SubSeq(bits, 1, Len(bits) - 1))
    ELSE bits

\* One unit in the last place more.
RECURSIVE AddUlp(_, _)
AddUlp(whole, bits) ==
  IF bits = << >> THEN [whole |-> whole + 1, frac |-> << >>]
  ELSE IF bits[Len(bits)] = 0
    THEN [whole |-> whole, frac |-> [bits EXCEPT ![Len(bits)] = 1]]
    ELSE LET up == AddUlp(whole, SubSeq(bits, 1, Len(bits) - 1))
         IN [whole |-> up.whole, frac |-> Append(up.frac, 0)]

\* A delay that is no positive finite number: "NaN", "Infinity", "negative"
\* (a negative count), or "unset" (the field was never assigned).
NoDouble(kind) == [kind |-> kind, whole |-> 0, frac |-> << >>]

\* Mutant: the quotient is rounded to whole milliseconds (Math.floor).
QuotientFloored(a, b) ==
  [kind |-> "finite", whole |-> a \div b, frac |-> << >>]

\* a / b: the quotient rounded to DoubleBits significant bits, to nearest,
\* ties to even.
Quotient(a, b) ==
  LET whole == a \div b
      rem == a % b
      n == IF whole > 0 THEN DoubleBits - BitLen(whole)
           ELSE IF rem = 0 THEN 0
           ELSE DoubleBits + LeadingZeros(rem, b)
      bits == FracBits(rem, b, n)
      left == RemAfter(rem, b, n)
      odd == IF n = 0 THEN whole % 2 = 1 ELSE bits[n] = 1
      up == 2 * left > b \/ (2 * left = b /\ odd)
      r == IF up THEN AddUlp(whole, bits) ELSE [whole |-> whole, frac |-> bits]
  IN [kind |-> "finite", whole |-> r.whole, frac |-> Trim(r.frac)]

\* x / (1 - limit_after_percent) for limit_after_percent = 0.5: the double x
\* times 2, which is exact.
Widened(x) ==
  IF x.frac = << >>
    THEN [kind |-> "finite", whole |-> 2 * x.whole, frac |-> << >>]
    ELSE [kind |-> "finite", whole |-> 2 * x.whole + Head(x.frac),
          frac |-> Tail(x.frac)]

\* ---- the constructor
\* Mutant: the fixed-delay version computes the widened delay of the burst
\* version.
DelayMsWidened(v, per_interval, interval) ==
  ((IntervalMs(interval) \div per_interval) * limit_after_percent_den)
    \div (limit_after_percent_den - limit_after_percent_num)

\* this.delay_ms of each version, in whole ms (all of it for RateSpecs).
DelayMs(v, per_interval, interval) ==
  IF v = "fixed"
    THEN Quotient(IntervalMs(interval), per_interval).whole
    ELSE Widened(Quotient(IntervalMs(interval), per_interval)).whole

\* The arguments of `new RateLimit(...)`: a rate string, or a count and a
\* unit string.
RateString(count, unit) == DecimalOf(count) \o <<" ">> \o CharsOf[unit]

CtorArgs ==
  {[text |-> RateString(c, u)] :
     c \in 0..MaxCount, u \in Units \cup {"per week"}}
  \cup 
  {[text |-> t] : t \in {CharsOf["Spec"], <<"5">>,
                         <<"I","n","v","a","l","i","d"," ","S","p","e","c">>,
                         <<"2", " ", " ">> \o CharsOf["per hour"],
                         <<"x", " ">> \o CharsOf["per day"],
                         <<"-", "4", " ">> \o CharsOf["per second"],
                         <<"3", "r", "d", " ">> \o CharsOf["per minute"],
                         <<" ", "7", " ">> \o CharsOf["per minute"],
                         <<"8", " ">>}}
  \cup
  {[per_interval |-> c, interval |-> u] :
     c \in 1..MaxCount, u \in Units \cup {"per week", "Spec", ""}}

\* The first lines of the constructor: a string argument is split and the
\* count parsed; a missing second part leaves interval undefined.
Parsed(args) ==
  IF "text" \in DOMAIN args
    THEN LET parts == Split(args.text)
         IN [per_interval |-> ParseInt(parts[1]),
             interval |-> IF Len(parts) > 1 THEN Join(parts[2])
                          ELSE "undefined"]
    ELSE [per_interval |-> [nan |-> FALSE, value |-> args.per_interval],
          interval |-> args.interval]

\* Mutant: the interval timer is started before the unit is looked at.
ConstructedTimerFirst(v, args) ==
  LET p == Parsed(args)
      ms == IntervalMs(p.interval)
  IN [state |-> IF ms = NoTimer THEN "threw" ELSE "ok",
      per_interval |-> p.per_interval,
      interval_ms |-> ms,
      delay |-> NoDouble("unset"),
      timer |-> v = "burst"]

\* The outcome of the constructor of version v: `threw` on the default
\* branch of the switch, else the fields it sets.  `delay` is the double
\* delay_ms ("NaN", "Infinity" or negative for a count that is no positive
\* number), `timer` whether setInterval was called.
Constructed(v, args) ==
  LET p == Parsed(args)
      ms == IntervalMs(p.interval)
      n == p.per_interval
      q == Quotient(ms, n.value)
  IN
  IF ms = NoTimer
    THEN [state |-> "threw", per_interval |-> n, interval_ms |-> NoTimer,
          delay |-> NoDouble("unset"), timer |-> FALSE]
    ELSE [state |-> "ok", per_interval |-> n, interval_ms |-> ms,
          delay |-> IF n.nan THEN NoDouble("NaN")
                    ELSE IF n.value = 0 THEN NoDouble("Infinity")
                    ELSE IF n.value < 0 THEN NoDouble("negative")
                    ELSE IF v = "fixed" THEN q ELSE Widened(q),
          timer |-> v = "burst"]

\* The state before the constructor has run.
Unconstructed(v, args) ==
  /\ variant = v
  /\ ctor = [state |-> "new", args |-> args]
  /\ delay_ms = NoTimer
  /\ requests_allowed = 0
  /\ interval_ms = NoTimer
  /\ nodes = << >>
  /\ head = Undefined /\ tail = Undefined /\ priority_tail = Undefined
  /\ is_running = FALSE
  /\ requests_made = 0
  /\ loops = << >>
  /\ reset_timer = NoTimer
  /\ now = 0
  /\ pushed = << >>
  /\ invoked = << >>
  /\ push_threw = FALSE
  /\ NoReddit

\* new RateLimit(args): the fields after the constructor has run.
Construct ==
  /\ ctor.state = "new"
  /\ LET c == Constructed(variant, ctor.args)
         finite == c.delay.kind = "finite"
     IN
     /\ ctor' = [state |-> c.state, args |-> ctor.args, result |-> c]
     /\ delay_ms' = IF finite THEN c.delay.whole ELSE NoTimer
     /\ requests_allowed' = IF c.state = "ok" /\ ~c.per_interval.nan
                              /\ variant = "burst"
                              THEN c.per_interval.value ELSE 0
     /\ interval_ms' = c.interval_ms
     /\ reset_timer' = IF c.timer THEN c.interval_ms ELSE NoTimer
  /\ UNCHANGED <<variant, nodes, head, tail, priority_tail, is_running,
                 requests_made, loops, now, pushed, invoked, push_threw,
                 reddit>>

\* A constructed limiter: one of RateSpecs, whose delay is a whole number of
\* milliseconds.
Init ==
  \E v \in Variants, rs \in RateSpecs :
    LET args == [per_interval |-> rs[1], interval |-> rs[2]]
        c == Constructed(v, args)
    IN
    /\ c.state = "ok"
    /\ variant = v
    /\ ctor = [state |-> "ok", args |-> args, result |-> c]
    /\ delay_ms = DelayMs(v, rs[1], rs[2])
    /\ requests_allowed = rs[1]
    /\ interval_ms = IntervalMs(rs[2])
    /\ nodes = << >>
    /\ head = Undefined /\ tail = Undefined /\ priority_tail = Undefined
    /\ is_running = FALSE
    /\ requests_made = 0
    /\ loops = << >>
    /\ reset_timer = IF v = "burst" THEN IntervalMs(rs[2]) ELSE NoTimer
    /\ now = 0
    /\ pushed = << >>
    /\ invoked = << >>
    /\ push_threw = FALSE
    /\ NoReddit

InitCtor == \E v \in Variants, args \in CtorArgs : Unconstructed(v, args)

SpecCtor == InitCtor /\ [][Construct]_vars

\* ------------------------------------------------------------- helpers
Min(a, b) == IF a < b THEN a ELSE b

RemoveAt(s, i) == [k \in 1..(Len(s) - 1) |-> IF k < i THEN s[k] ELSE s[k + 1]]

\* The run() invocations that are inside a call of fn().  JavaScript runs to
\* completion: while this set is non-empty no timer callback can run, and
\* the only calls of push are made by the running task.
Invoking == {i \in DOMAIN loops : loops[i].pc = "invoking"}

\* The innermost fn() call (the top of the call stack).
Top == CHOOSE i \in Invoking : \A j \in Invoking : j <= i

\* ------------------------------------------------------------------ run
\* Mutant: the comparison is strict (>).
ThrottledStrict(made) ==
  made * limit_after_percent_den > limit_after_percent_num * requests_allowed

\* requests_made / requests_allowed >= limit_after_percent
Throttled(made) ==
  made * limit_after_percent_den >= limit_after_percent_num * requests_allowed

\* this.requests_made++ (burst only)
Counted(made) == IF variant = "burst" THEN made + 1 ELSE made

\* Mutant: leaving the loop does not delete this.tail and this.priority_tail.
WhileKeepsTails(h, t, pt, nds, lps, i, running, inv) ==
  IF h # Undefined
    THEN /\ head' = h /\ tail' = t /\ priority_tail' = pt
         /\ is_running' = running
         /\ requests_made' = Counted(requests_made)
         /\ loops' = [lps EXCEPT ![i] = [pc |-> "invoking", timer |-> NoTimer,
                                         task |-> nds[h].fn]]
         /\ invoked' = Append(inv, [task |-> nds[h].fn, at |-> now,
                                    seen |-> Len(nds),
                                    made |-> Counted(requests_made),
                                    delay |-> NoTimer])
    ELSE /\ head' = Undefined /\ tail' = t /\ priority_tail' = pt
         /\ is_running' = FALSE
         /\ loops' = RemoveAt(lps, i)
         /\ invoked' = inv
         /\ UNCHANGED requests_made

\* Mutant: leaving the loop does not clear is_running.
WhileLeavesRunning(h, t, pt, nds, lps, i, running, inv) ==
  IF h # Undefined
    THEN /\ head' = h /\ tail' = t /\ priority_tail' = pt
         /\ is_running' = running
         /\ requests_made' = Counted(requests_made)
         /\ loops' = [lps EXCEPT ![i] = [pc |-> "invoking", timer |-> NoTimer,
                                         task |-> nds[h].fn]]
         /\ invoked' = Append(inv, [task |-> nds[h].fn, at |-> now,
                                    seen |-> Len(nds),
                                    made |-> Counted(requests_made),
                                    delay |-> NoTimer])
    ELSE /\ head' = Undefined /\ tail' = Undefined /\ priority_tail' = Undefined
         /\ is_running' = running
         /\ loops' = RemoveAt(lps, i)
         /\ invoked' = inv
         /\ UNCHANGED requests_made

\* The loop test `while (this.head !== undefined)` of run() number i, with
\* the queue pointers standing at h, t, pt, and what follows it up to the
\* next point where other code can run: either the call of head.fn() is
\* entered, or the loop is left, the pointers are deleted and is_running is
\* cleared.
While(h, t, pt, nds, lps, i, running, inv) ==
  IF h # Undefined
    THEN /\ head' = h /\ tail' = t /\ priority_tail' = pt
         /\ is_running' = running
         /\ requests_made' = Counted(requests_made)
         /\ loops' = [lps EXCEPT ![i] = [pc |-> "invoking", timer |-> NoTimer,
                                         task |-> nds[h].fn]]
         /\ invoked' = Append(inv, [task |-> nds[h].fn, at |-> now,
                                    seen |-> Len(nds),
                                    made |-> Counted(requests_made),
                                    delay |-> NoTimer])
    ELSE /\ head' = Undefined /\ tail' = Undefined /\ priority_tail' = Undefined
         /\ is_running' = FALSE
         /\ loops' = RemoveAt(lps, i)
         /\ invoked' = inv
         /\ UNCHANGED requests_made

\* Mutant: a normal push on a non-empty queue links the node after tail but
\* does not move tail.
InsertNormalKeepsTail(priority, fn) ==
  LET n == Len(nodes) + 1
      same == [nodes |-> nodes, head |-> head, tail |-> tail,
               priority_tail |-> priority_tail, threw |-> FALSE]
  IN
  IF priority /\ head = Undefined THEN
    [same EXCEPT !.nodes = Append(nodes, [fn |-> fn, next |-> Undefined]),
                 !.head = n, !.tail = n, !.priority_tail = n]
  ELSE IF priority /\ priority_tail # Undefined THEN
    [same EXCEPT !.nodes = [Append(nodes, [fn |-> fn,
                                           next |-> nodes[priority_tail].next])
                              EXCEPT ![priority_tail].next = n],
                 !.priority_tail = n]
  ELSE IF priority THEN
    [same EXCEPT !.nodes = Append(nodes, [fn |-> fn, next |-> head]),
                 !.head = n, !.priority_tail = n]
  ELSE IF head = Undefined THEN
    [same EXCEPT !.nodes = Append(nodes, [fn |-> fn, next |-> Undefined]),
                 !.head = n, !.tail = n]
  ELSE IF tail = Undefined THEN
    [same EXCEPT !.threw = TRUE]
  ELSE
    [same EXCEPT !.nodes = [Append(nodes, [fn |-> fn, next |-> Undefined])
                              EXCEPT ![tail].next = n]]

\* Mutant: a priority push on an empty queue sets head and priority_tail
\* but leaves tail unset.
InsertPriorityForgetsTail(priority, fn) ==
  LET n == Len(nodes) + 1
      same == [nodes |-> nodes, head |-> head, tail |-> tail,
               priority_tail |-> priority_tail, threw |-> FALSE]
  IN
  IF priority /\ head = Undefined THEN
    [same EXCEPT !.nodes = Append(nodes, [fn |-> fn, next |-> Undefined]),
                 !.head = n, !.priority_tail = n]
  ELSE IF priority /\ priority_tail # Undefined THEN
    [same EXCEPT !.nodes = [Append(nodes, [fn |-> fn,
                                           next |-> nodes[priority_tail].next])
                              EXCEPT ![priority_tail].next = n],
                 !.priority_tail = n]
  ELSE IF priority THEN
    [same EXCEPT !.nodes = Append(nodes, [fn |-> fn, next |-> head]),
                 !.head = n, !.priority_tail = n]
  ELSE IF head = Undefined THEN
    [same EXCEPT !.nodes = Append(nodes, [fn |-> fn, next |-> Undefined]),
                 !.head = n, !.tail = n]
  ELSE IF tail = Undefined THEN
    [same EXCEPT !.threw = TRUE]
  ELSE
    [same EXCEPT !.nodes = [Append(nodes, [fn |-> fn, next |-> Undefined])
                              EXCEPT ![tail].next = n],
                 !.tail = n]

\* ----------------------------------------------------------------- push
\* The admission branches of push(fn, priority): the heap and the three
\* queue pointers after the new node is linked in.  `threw` is the TypeError
\* of this.tail!.next on an unset tail, which assigns nothing.
Insert(priority, fn) ==
  LET n == Len(nodes) + 1
      same == [nodes |-> nodes, head |-> head, tail |-> tail,
               priority_tail |-> priority_tail, threw |-> FALSE]
  IN
  IF priority /\ head = Undefined THEN
    [same EXCEPT !.nodes = Append(nodes, [fn |-> fn, next |-> Undefined]),
                 !.head = n, !.tail = n, !.priority_tail = n]
  ELSE IF priority /\ priority_tail # Undefined THEN
    [same EXCEPT !.nodes = [Append(nodes, [fn |-> fn,
                                           next |-> nodes[priority_tail].next])
                              EXCEPT ![priority_tail].next = n],
                 !.priority_tail = n]
  ELSE IF priority THEN
    [same EXCEPT !.nodes = Append(nodes, [fn |-> fn, next |-> head]),
                 !.head = n, !.priority_tail = n]
  ELSE IF head = Undefined THEN
    [same EXCEPT !.nodes = Append(nodes, [fn |-> fn, next |-> Undefined]),
                 !.head = n, !.tail = n]
  ELSE IF tail = Undefined THEN
    [same EXCEPT !.threw = TRUE]
  ELSE
    [same EXCEPT !.nodes = [Append(nodes, [fn |-> fn, next |-> Undefined])
                              EXCEPT ![tail].next = n],
                 !.tail = n]

\* Mutant: push calls run() whether or not a loop is running.
PushAlwaysStartsRun == TRUE

\* if (!this.is_running) this.run()
PushStartsRun == ~is_running

\* push(fn, priority): fn is a new task, which throws when invoked iff
\* `throws`.  The call is made between two events, or by the running task.
\* When it starts run(), run() proceeds synchronously into head.fn().
Push(priority, throws) ==
  /\ ctor.state = "ok"
  /\ Len(pushed) < MaxPush
  /\ LET q == Insert(priority, Len(pushed) + 1)
         started == Append(loops, [pc |-> "start", timer |-> NoTimer, task |-> 0])
     IN
     /\ pushed' = Append(pushed, [priority |-> priority, throws |-> throws,
                                  at |-> now])
     /\ nodes' = q.nodes
     /\ push_threw' = (push_threw \/ q.threw)
     /\ IF ~q.threw /\ PushStartsRun
          THEN While(q.head, q.tail, q.priority_tail, q.nodes, started,
                     Len(started), TRUE, invoked)
          ELSE /\ head' = q.head /\ tail' = q.tail
               /\ priority_tail' = q.priority_tail
               /\ UNCHANGED <<is_running, requests_made, loops, invoked>>
  /\ UNCHANGED <<config, reset_timer, now>>

\* ------------------------------------------------------- the drain loop
\* `this.head = this.head.next` and the next loop test, for run() number i.
\* On an unset head the read of .next is a TypeError that rejects run().
Advance(i, inv) ==
  IF head = Undefined
    THEN /\ loops' = RemoveAt(loops, i)
         /\ invoked' = inv
         /\ UNCHANGED <<head, tail, priority_tail, is_running, requests_made>>
    ELSE While(nodes[head].next, tail, priority_tail, nodes, loops, i,
               is_running, inv)

\* Mutant: the fixed-delay loop awaits only when the burst test asks for it.
SuspendsWhenThrottled == Throttled(requests_made)

\* Whether run() awaits the setTimeout after a call of fn() that returned.
Suspends == variant = "fixed" \/ Throttled(requests_made)

SetDelay(s, d) == [s EXCEPT ![Len(s)].delay = d]

\* The running task returns: run() goes on to its await, or (burst, below
\* the threshold) pops the head at once and tests the loop again.
TaskReturn ==
  /\ Invoking # {}
  /\ ~pushed[loops[Top].task].throws
  /\ IF Suspends
       THEN /\ loops' = [loops EXCEPT ![Top] = [@ EXCEPT !.pc = "waiting",
                                                         !.timer = delay_ms]]
            /\ invoked' = SetDelay(invoked, delay_ms)
            /\ UNCHANGED <<head, tail, priority_tail, is_running, requests_made>>
       ELSE Advance(Top, SetDelay(invoked, 0))
  /\ UNCHANGED <<config, nodes, reset_timer, now, pushed, push_threw>>

\* The running task throws: the exception leaves run(), whose promise is
\* rejected; nothing catches it and nothing after the call is executed.
TaskThrow ==
  /\ Invoking # {}
  /\ pushed[loops[Top].task].throws
  /\ loops' = RemoveAt(loops, Top)
  /\ UNCHANGED <<config, nodes, head, tail, priority_tail, is_running,
                 requests_made, reset_timer, now, pushed, invoked, push_threw>>

\* The setTimeout of a suspended run() fires: the await resumes.
TimerFire(i) ==
  /\ Invoking = {}
  /\ loops[i].pc = "waiting"
  /\ loops[i].timer = 0
  /\ Advance(i, invoked)
  /\ UNCHANGED <<config, nodes, reset_timer, now, pushed, push_threw>>

\* Mutant: the reset callback leaves requests_made as it is.
QuotaResetKeepsCount ==
  /\ Invoking = {}
  /\ reset_timer = 0
  /\ reset_timer' = interval_ms
  /\ UNCHANGED <<config, nodes, head, tail, priority_tail, is_running, loops,
                 requests_made, now, pushed, invoked, push_threw>>

\* Mutant: the reset callback also ends the suspension in progress.
QuotaResetWakesLoop ==
  /\ Invoking = {}
  /\ reset_timer = 0
  /\ requests_made' = 0
  /\ reset_timer' = interval_ms
  /\ loops' = [i \in DOMAIN loops |->
                 IF loops[i].timer = NoTimer THEN loops[i]
                 ELSE [loops[i] EXCEPT !.timer = 0]]
  /\ UNCHANGED <<config, nodes, head, tail, priority_tail, is_running,
                 now, pushed, invoked, push_threw>>

\* setInterval(() => (this.requests_made = 0), interval_ms)
QuotaReset ==
  /\ Invoking = {}
  /\ reset_timer = 0
  /\ requests_made' = 0
  /\ reset_timer' = interval_ms
  /\ UNCHANGED <<config, nodes, head, tail, priority_tail, is_running, loops,
                 now, pushed, invoked, push_threw>>

\* ----------------------------------------------------------------- time
Armed ==
  ({loops[i].timer : i \in DOMAIN loops} \cup {reset_timer}
     \cup {state_timers[s] : s \in DOMAIN state_timers}
     \cup {refresh_timers[c] : c \in DOMAIN refresh_timers}) \ {NoTimer}

\* Time passes, never past a timer that is due: by at most TickMs while the
\* observed clock counts, and up to the next timer once it has stopped
\* counting.  A task runs in no time.
Tick ==
  /\ Invoking = {}
  /\ 0 \notin Armed
  /\ LET m == CHOOSE t \in Armed : \A u \in Armed : t <= u
         d == IF Armed = {} THEN TickMs
              ELSE IF now < MaxClock THEN Min(TickMs, m)
              ELSE m
     IN
     /\ now' = Min(now + d, MaxClock)
     /\ loops' = [i \in DOMAIN loops |->
                    IF loops[i].timer = NoTimer THEN loops[i]
                    ELSE [loops[i] EXCEPT !.timer = @ - d]]
     /\ reset_timer' = IF reset_timer = NoTimer THEN NoTimer ELSE reset_timer - d
     /\ state_timers' = [s \in DOMAIN state_timers |-> state_timers[s] - d]
     /\ refresh_timers' = [c \in DOMAIN refresh_timers |->
                             refresh_timers[c] - d]
  /\ UNCHANGED <<config, nodes, head, tail, priority_tail, is_running,
                 requests_made, pushed, invoked, push_threw,
                 pending_auth_states, states_issued, api_calls, auth_calls,
                 session>>

\* ------------------------------------------------------- specifications
\* The limiter driven directly by pushes of any kind.
Next ==
  \/ \E priority \in BOOLEAN, throws \in BOOLEAN :
       Push(priority, throws) /\ UNCHANGED reddit
  \/ TaskReturn /\ UNCHANGED reddit
  \/ TaskThrow /\ UNCHANGED reddit
  \/ \E i \in DOMAIN loops : TimerFire(i) /\ UNCHANGED reddit
  \/ QuotaReset /\ UNCHANGED reddit
  \/ Tick

Spec == Init /\ [][Next]_vars

\* The event loop runs what is ready: the running task returns or throws, a
\* due timer fires, time passes.  Pushes come when the caller pleases.
FairSpec ==
  /\ Spec
  /\ WF_vars(TaskReturn /\ UNCHANGED reddit)
  /\ WF_vars(TaskThrow /\ UNCHANGED reddit)
  /\ WF_vars(\E i \in DOMAIN loops : TimerFire(i) /\ UNCHANGED reddit)
  /\ WF_vars(QuotaReset /\ UNCHANGED reddit)
  /\ WF_vars(Tick)

\* ------------------------------------------------------- observations
Tasks == DOMAIN pushed
Calls == DOMAIN invoked

\* The calls of fn() made for task t.
CallsOf(t) == {k \in Calls : invoked[k].task = t}

\* The nodes on the chain that starts at node n.
RECURSIVE Chain(_)
Chain(n) == IF n = Undefined THEN {} ELSE {n} \cup Chain(nodes[n].next)

\* The nodes reached from n by next links, in order.
RECURSIVE ChainSeq(_)
ChainSeq(n) ==
  IF n = Undefined THEN << >> ELSE <<n>> \o ChainSeq(nodes[n].next)

\* Whether node n holds a task pushed with priority = true.
IsPriority(n) == pushed[nodes[n].fn].priority

\* The tasks that wait on the chain from head.
Queued == {nodes[n].fn : n \in Chain(head)}

\* A task has thrown: a call of fn() whose run() is gone without a suspension
\* or a pop recorded after it.
SomeTaskThrew ==
  \E k \in Calls : /\ invoked[k].delay = NoTimer
                   /\ pushed[invoked[k].task].throws
                   /\ \A i \in DOMAIN loops : loops[i].pc # "invoking"

\* ---------------------------------------------------- the Reddit wrapper
\* Reddit.queue = new RateLimit('60 per minute') of the burst version, at the
\* start of the process or after WindowUsed requests were released at once
\* at its start (they are below the burst threshold, so none was delayed).
InitQueue(made) ==
  LET args == [text |-> RateString(RedditQueue[1], RedditQueue[2])]
      c == Constructed("burst", args)
  IN
  /\ variant = "burst"
  /\ ctor = [state |-> c.state, args |-> args, result |-> c]
  /\ delay_ms = c.delay.whole
  /\ requests_allowed = c.per_interval.value
  /\ interval_ms = c.interval_ms
  /\ nodes = << >>
  /\ head = Undefined /\ tail = Undefined /\ priority_tail = Undefined
  /\ is_running = FALSE
  /\ requests_made = made
  /\ loops = << >>
  /\ reset_timer = c.interval_ms
  /\ now = 0
  /\ pushed = << >>
  /\ invoked = << >>
  /\ push_threw = FALSE
  /\ NoReddit

InitReddit == \E made \in {0, WindowUsed} : InitQueue(made)

\* api_request up to its first await: the executor of the new Promise calls
\* Reddit.queue.push(resolve); `by` names the caller and `token` is the
\* refresh token of the form, if the caller is auth(refresh_token).
ApiRequestFor(by, token) ==
  /\ Push(FALSE, FALSE)
  /\ api_calls' = Append(api_calls,
                         [task |-> Len(pushed) + 1, issued |-> FALSE,
                          by |-> by, answer |-> "none", token |-> token])

ApiRequest(by) ==
  ApiRequestFor(by, IF by = "refresh" THEN refresh_token ELSE Undefined)

\* The wrapper is called while the observed clock counts, and again once
\* every state has expired or been used.
CallTime == now < MaxClock \/ (states_issued > 0 /\ pending_auth_states = {})

\* Continuations that the limiter has invoked and whose api_request has not
\* resumed yet: microtasks, which run before any timer callback.
Released ==
  {c \in DOMAIN api_calls :
     ~api_calls[c].issued /\ CallsOf(api_calls[c].task) # {}}

NoMicrotask == Released = {}

\* Mutant: api_request does not await the promise of its continuation.
ResumeUnawaited(c) ==
  /\ Invoking = {}
  /\ c \in DOMAIN api_calls
  /\ ~api_calls[c].issued
  /\ api_calls' = [api_calls EXCEPT ![c].issued = TRUE]
  /\ UNCHANGED <<config, nodes, head, tail, priority_tail, is_running,
                 requests_made, loops, reset_timer, now, pushed, invoked,
                 push_threw, pending_auth_states, state_timers, states_issued,
                 auth_calls, session, refresh_timers>>

\* api_request resumes after `await new Promise(...)` and calls request(...).
Resume(c) ==
  /\ Invoking = {}
  /\ c \in Released
  /\ api_calls' = [api_calls EXCEPT ![c].issued = TRUE]
  /\ UNCHANGED <<config, nodes, head, tail, priority_tail, is_running,
                 requests_made, loops, reset_timer, now, pushed, invoked,
                 push_threw, pending_auth_states, state_timers, states_issued,
                 auth_calls, session, refresh_timers>>

\* me(), prefs(), ...: an endpoint method calls api_request (while the
\* observed clock counts).
Endpoint ==
  /\ now < MaxClock
  /\ ApiRequest("endpoint")
  /\ UNCHANGED <<pending_auth_states, state_timers, states_issued, auth_calls,
                 session, refresh_timers>>

\* auth_url_and_state(): a fresh state, pending for StateExpiryMs (called
\* while the observed clock counts).
AuthUrlAndState ==
  /\ Invoking = {}
  /\ now < MaxClock
  /\ states_issued < MaxStates
  /\ states_issued' = states_issued + 1
  /\ pending_auth_states' = pending_auth_states \cup {states_issued + 1}
  /\ state_timers' = [s \in DOMAIN state_timers \cup {states_issued + 1} |->
                        IF s \in DOMAIN state_timers THEN state_timers[s]
                        ELSE StateExpiryMs]
  /\ UNCHANGED <<config, nodes, head, tail, priority_tail, is_running,
                 requests_made, loops, reset_timer, now, pushed, invoked,
                 push_threw, api_calls, auth_calls, session, refresh_timers>>

\* The expiry timer of state s fires.
StateExpire(s) ==
  /\ Invoking = {}
  /\ s \in DOMAIN state_timers
  /\ state_timers[s] = 0
  /\ pending_auth_states' = pending_auth_states \ {s}
  /\ state_timers' = [t \in DOMAIN state_timers \ {s} |-> state_timers[t]]
  /\ UNCHANGED <<config, nodes, head, tail, priority_tail, is_running,
                 requests_made, loops, reset_timer, now, pushed, invoked,
                 push_threw, states_issued, api_calls, auth_calls, session,
                 refresh_timers>>

\* Mutant: auth accepts a pending state without deleting its key.
AuthKeepsState(s) ==
  /\ Invoking = {}
  /\ CallTime
  /\ Len(auth_calls) < MaxAuth
  /\ IF s \in pending_auth_states
       THEN /\ state_timers' = [t \in DOMAIN state_timers \ {s} |->
                                  state_timers[t]]
            /\ ApiRequest("auth")
            /\ auth_calls' = Append(auth_calls, [state |-> s, accepted |-> TRUE,
                                                 task |-> Len(pushed) + 1])
            /\ UNCHANGED <<pending_auth_states, states_issued>>
            /\ logged_out' = FALSE
            /\ UNCHANGED <<bearer_token, refresh_token, refresh_timers,
                           refresh_token_timeout, logouts>>
       ELSE /\ auth_calls' = Append(auth_calls, [state |-> s, accepted |-> FALSE,
                                                 task |-> 0])
            /\ UNCHANGED <<config, nodes, head, tail, priority_tail, is_running,
                           requests_made, loops, reset_timer, now, pushed,
                           invoked, push_threw, pending_auth_states,
                           state_timers, states_issued, api_calls>>
            /\ logged_out' = FALSE
            /\ UNCHANGED <<bearer_token, refresh_token, refresh_timers,
                           refresh_token_timeout, logouts>>

\* auth({state: s, code}): a pending state is cleared (clearTimeout, delete)
\* and the access-token request goes to api_request; any other state is
\* rejected with 'State not found.'.  State 0 is one never issued.
Auth(s) ==
  /\ Invoking = {}
  /\ CallTime
  /\ Len(auth_calls) < MaxAuth
  /\ IF s \in pending_auth_states
       THEN /\ state_timers' = [t \in DOMAIN state_timers \ {s} |->
                                  state_timers[t]]
            /\ pending_auth_states' = pending_auth_states \ {s}
            /\ ApiRequest("auth")
            /\ auth_calls' = Append(auth_calls, [state |-> s, accepted |-> TRUE,
                                                 task |-> Len(pushed) + 1])
            /\ UNCHANGED states_issued
            /\ logged_out' = FALSE
            /\ UNCHANGED <<bearer_token, refresh_token, refresh_timers,
                           refresh_token_timeout, logouts>>
       ELSE /\ auth_calls' = Append(auth_calls, [state |-> s, accepted |-> FALSE,
                                                 task |-> 0])
            /\ UNCHANGED <<config, nodes, head, tail, priority_tail, is_running,
                           requests_made, loops, reset_timer, now, pushed,
                           invoked, push_threw, pending_auth_states,
                           state_timers, states_issued, api_calls>>
            /\ logged_out' = FALSE
            /\ UNCHANGED <<bearer_token, refresh_token, refresh_timers,
                           refresh_token_timeout, logouts>>

\* expires_in * 1_000 - 60_000: the refresh timer is due a minute before the
\* access token expires.
RefreshDelayMs == ExpiresIn * 1000 - 60000

\* The session is followed while the observed clock counts, and afterwards
\* when no authorization state is waiting for its expiry.
SessionTime == now < MaxClock \/ pending_auth_states = {}

\* What the HTTP response of a call may be: for an access-token request a
\* grant with or without a refresh_token, the error 'invalid_request', or
\* another error.
Answers(by) ==
  IF by = "endpoint" THEN {"ok"}
  ELSE {"permanent", "temporary", "invalid_request", "error"}

\* The fields after logout(): the timer whose handle the field keeps is
\* cleared (no effect if it has fired), both tokens are unset.
LoggedOut ==
  /\ refresh_timers' = [c \in DOMAIN refresh_timers \ {refresh_token_timeout}
                          |-> refresh_timers[c]]
  /\ bearer_token' = Undefined
  /\ refresh_token' = Undefined
  /\ logged_out' = TRUE
  /\ UNCHANGED refresh_token_timeout

\* logout(), called by the application.
Logout ==
  /\ Invoking = {}
  /\ SessionTime
  /\ logouts < MaxLogout
  /\ logouts' = logouts + 1
  /\ LoggedOut
  /\ UNCHANGED <<config, nodes, head, tail, priority_tail, is_running,
                 requests_made, loops, reset_timer, now, pushed, invoked,
                 push_threw, pending_auth_states, state_timers, states_issued,
                 api_calls, auth_calls>>

\* The process may make another request.
Room == Len(api_calls) < MaxSessionCalls

\* A refresh token the application holds in persistent storage from an
\* earlier process; tokens granted in this one are named by their call.
StoredToken == 9

\* The refresh tokens the application can pass to auth(refresh_token).
AppTokens ==
  {StoredToken} \cup
    {c \in DOMAIN api_calls : api_calls[c].answer = "permanent"}

\* auth(refresh_token), called by the application: the token is kept in
\* _refresh_token and the refresh request goes to api_request.
AuthRefresh(token) ==
  /\ Invoking = {}
  /\ SessionTime
  /\ token \in AppTokens
  /\ Room
  /\ ApiRequestFor("refresh", token)
  /\ refresh_token' = token
  /\ logged_out' = FALSE
  /\ UNCHANGED <<pending_auth_states, state_timers, states_issued, auth_calls,
                 bearer_token, refresh_timers, refresh_token_timeout, logouts>>

\* auth after a successful access-token response of call c: the tokens are
\* set from the response, and the refresh timer is armed if a refresh token
\* is held and the response carries expires_in (`expires`).
Granted(c, answer, expires) ==
  /\ bearer_token' = c
  /\ refresh_token' = IF answer = "permanent" THEN c ELSE refresh_token
  /\ IF refresh_token' # Undefined /\ expires
       THEN /\ refresh_timers' =
                 [d \in DOMAIN refresh_timers \cup {c} |->
                    IF d = c THEN RefreshDelayMs ELSE refresh_timers[d]]
            /\ refresh_token_timeout' = c
       ELSE UNCHANGED <<refresh_timers, refresh_token_timeout>>
  /\ UNCHANGED logged_out

\* The HTTP response of call c arrives and its caller resumes: an endpoint
\* hands it on; auth sets the session from a grant, which carries
\* expires_in or not (`expires`); on an error the
\* first-time auth rethrows, the refresh-token auth logs out on
\* 'invalid_request' and otherwise calls auth(options) again.
Response(c, answer, expires) ==
  /\ Invoking = {}
  /\ api_calls[c].issued
  /\ api_calls[c].answer = "none"
  /\ answer \in Answers(api_calls[c].by)
  /\ SessionTime
  /\ answer \notin {"permanent", "temporary"} => expires
  /\ LET answered == [api_calls EXCEPT ![c].answer = answer]
         limiter == <<nodes, head, tail, priority_tail, is_running,
                      requests_made, loops, pushed, invoked, push_threw>>
     IN
     CASE api_calls[c].by = "endpoint" \/
          (api_calls[c].by = "auth" /\ answer \in {"invalid_request", "error"}) ->
            /\ api_calls' = answered
            /\ UNCHANGED <<limiter, session, refresh_timers>>
       [] answer \in {"permanent", "temporary"} ->
            /\ api_calls' = answered
            /\ Granted(c, answer, expires)
            /\ UNCHANGED <<limiter, logouts>>
       [] api_calls[c].by = "refresh" /\ answer = "invalid_request" ->
            /\ api_calls' = answered
            /\ LoggedOut
            /\ UNCHANGED <<limiter, logouts>>
       [] OTHER ->
            /\ Room
            /\ Push(FALSE, FALSE)
            /\ api_calls' = Append(answered,
                                   [task |-> Len(pushed) + 1, issued |-> FALSE,
                                    by |-> "refresh", answer |-> "none",
                                    token |-> api_calls[c].token])
            /\ refresh_token' = api_calls[c].token
            /\ logged_out' = FALSE
            /\ UNCHANGED <<bearer_token, refresh_timers,
                           refresh_token_timeout, logouts>>
  /\ UNCHANGED <<config, reset_timer, now, pending_auth_states, state_timers,
                 states_issued, auth_calls>>

\* The refresh timer armed by call c fires: this.auth(this._refresh_token).
\* With the token unset the call fails on options.state (a TypeError that
\* rejects its promise) before anything is queued.
RefreshFire(c) ==
  /\ Invoking = {}
  /\ refresh_timers[c] = 0
  /\ refresh_timers' = [d \in DOMAIN refresh_timers \ {c} |-> refresh_timers[d]]
  /\ logged_out' = FALSE
  /\ IF refresh_token # Undefined
       THEN Room /\ ApiRequest("refresh")
       ELSE UNCHANGED <<config, nodes, head, tail, priority_tail, is_running,
                       requests_made, loops, reset_timer, now, pushed,
                       invoked, push_threw, api_calls>>
  /\ UNCHANGED <<pending_auth_states, state_timers, states_issued, auth_calls,
                 bearer_token, refresh_token, refresh_token_timeout, logouts>>

\* The wrapper and its limiter: all pushes come from api_request, and timer
\* callbacks run only when no continuation is waiting to resume.
NextReddit ==
  \/ AuthUrlAndState
  \/ \E s \in 0..states_issued : Auth(s)
  \/ Endpoint
  \/ \E c \in DOMAIN api_calls : Resume(c)
  \/ \E s \in DOMAIN state_timers : NoMicrotask /\ StateExpire(s)
  \/ TaskReturn /\ UNCHANGED reddit
  \/ \E i \in DOMAIN loops : NoMicrotask /\ TimerFire(i) /\ UNCHANGED reddit
  \/ NoMicrotask /\ QuotaReset /\ UNCHANGED reddit
  \/ NoMicrotask /\ Tick

SpecReddit == InitReddit /\ [][NextReddit]_vars

\* The event loop runs what is ready: a task returns, a continuation
\* resumes, a due timer fires, time passes.
FairSpecReddit ==
  /\ SpecReddit
  /\ WF_vars(TaskReturn /\ UNCHANGED reddit)
  /\ WF_vars(\E c \in DOMAIN api_calls : Resume(c))
  /\ WF_vars(\E i \in DOMAIN loops :
               NoMicrotask /\ TimerFire(i) /\ UNCHANGED reddit)
  /\ WF_vars(NoMicrotask /\ QuotaReset /\ UNCHANGED reddit)
  /\ WF_vars(\E s \in DOMAIN state_timers : NoMicrotask /\ StateExpire(s))
  /\ WF_vars(NoMicrotask /\ Tick)

\* The wrapper with its session: the application also logs out and starts
\* a session from a refresh token, the HTTP
\* responses of issued requests arrive, and refresh timers fire.
NextSession ==
  \/ AuthUrlAndState
  \/ \E s \in 0..states_issued : Room /\ Auth(s)
  \/ Room /\ Endpoint
  \/ \E c \in DOMAIN api_calls : Resume(c)
  \/ TaskReturn /\ UNCHANGED reddit
  \/ \E i \in DOMAIN loops : NoMicrotask /\ TimerFire(i) /\ UNCHANGED reddit
  \/ NoMicrotask /\ QuotaReset /\ UNCHANGED reddit
  \/ NoMicrotask /\ SessionTime /\ Tick
  \/ Logout
  \/ \E token \in AppTokens : AuthRefresh(token)
  \/ \E c \in DOMAIN api_calls :
       \E answer \in Answers(api_calls[c].by), expires \in BOOLEAN :
         NoMicrotask /\ Response(c, answer, expires)
  \/ \E c \in DOMAIN refresh_timers : NoMicrotask /\ RefreshFire(c)

\* The process starts its session with a fresh window, or with the window
\* one request short of the burst threshold, so that the first request is
\* followed by a delay and the second waits in the queue.
InitSession == \E made \in {0, WindowUsed + 1} : InitQueue(made)

SpecSession == InitSession /\ [][NextSession]_vars

\* ---------------------------------------------------------------- claims

\* C1: a normal task is never invoked while a priority task pushed before
\* that invocation has not run yet, and within each class (priority, normal)
\* the tasks are invoked in the order they were pushed.
C1_PriorityThenFifo ==
  \A k \in Calls :
    /\ ~pushed[invoked[k].task].priority =>
         \A p \in 1..invoked[k].seen :
           pushed[p].priority => \E j \in 1..(k - 1) : invoked[j].task = p
    /\ \A j \in 1..(k - 1) :
         pushed[invoked[j].task].priority = pushed[invoked[k].task].priority
           => invoked[j].task < invoked[k].task

\* C2: a pushed task that has not been invoked yet is on the chain from head
\* (it is never left unreachable, so the drain loop will come to it).
C2_PushedTaskStaysQueued ==
  \A t \in Tasks : CallsOf(t) = {} => t \in Queued

\* C3: no task is invoked more often than it was pushed (each task is pushed
\* once here).
C3_AtMostOncePerPush ==
  \A t \in Tasks : Cardinality(CallsOf(t)) <= 1

\* C4: fixed-delay limiter built with "2 per second": a normal task a and a
\* priority task b pushed after a but before a runs are invoked b first,
\* then a.
C4_PriorityBeforeEarlierNormal ==
  (variant = "fixed" /\ requests_allowed = 2 /\ interval_ms = PerSecondMs) =>
    \A a, b \in Tasks :
      (a < b /\ ~pushed[a].priority /\ pushed[b].priority) =>
        \A k \in CallsOf(a) :
          (b <= invoked[k].seen /\ \A j \in CallsOf(a) : k <= j) =>
            \E j \in 1..(k - 1) : invoked[j].task = b

\* A push starts a drain loop exactly when it finds is_running false.
C5_PushStartsLoopIffIdle ==
  Len(pushed') = Len(pushed) + 1 =>
    Len(loops') = IF is_running THEN Len(loops) ELSE Len(loops) + 1

\* C5: at most one drain loop is active in every state; a push on an idle
\* limiter starts one loop, and a push while is_running is true starts none.
C5_SingleFlight ==
  [](Len(loops) <= 1) /\ [][C5_PushStartsLoopIffIdle]_vars

\* A push was made while the loop was suspended behind the first task, and
\* there is still one loop.
C5_Witness ==
  /\ Len(pushed) >= 2
  /\ Len(invoked) = 1
  /\ Len(loops) = 1
  /\ loops[1].pc = "waiting"

\* C6: an idle limiter has head, tail and priority_tail unset, and a push on
\* an idle limiter makes the new node the whole chain: head and tail are the
\* new node, it has no successor, and no older node is changed.
C6_IdleIsEmpty ==
  ~is_running =>
    head = Undefined /\ tail = Undefined /\ priority_tail = Undefined

C6_PushOnIdle ==
  (~is_running /\ Len(pushed') = Len(pushed) + 1) =>
    /\ Len(nodes') = Len(nodes) + 1
    /\ head' = Len(nodes') /\ tail' = Len(nodes')
    /\ priority_tail' \in {Undefined, Len(nodes')}
    /\ nodes'[Len(nodes')].next = Undefined
    /\ \A n \in DOMAIN nodes : nodes'[n] = nodes[n]

C6_FreshChainAfterDrain == [](C6_IdleIsEmpty) /\ [][C6_PushOnIdle]_vars

\* The first task was drained and the limiter went idle; the second push
\* built a chain of its own.
C6_Witness ==
  /\ Len(nodes) = 2
  /\ head = 2 /\ tail = 2
  /\ nodes[1].next = Undefined
  /\ CallsOf(nodes[1].fn) # {}

\* C7: after a task has thrown the drain loop goes on: while a task is at
\* head, a loop is there to run it or to pop it.
C7_DrainSurvivesThrow ==
  (SomeTaskThrew /\ head # Undefined) => loops # << >>

\* C8: fixed delay: two consecutive invocations are at least delay_ms apart
\* (as far as the clock counts).
C8_FixedDelayBetweenCalls ==
  variant = "fixed" =>
    \A k \in Calls :
      (k > 1 /\ invoked[k].at < MaxClock) =>
        invoked[k].at - invoked[k - 1].at >= delay_ms

\* The second task was pushed on the limiter after it went idle, and ran at
\* once, a full delay after the first.
C8_Witness ==
  /\ variant = "fixed"
  /\ Len(invoked) = 2
  /\ nodes[1].next = Undefined
  /\ invoked[2].at = pushed[2].at
  /\ invoked[2].at < MaxClock
  /\ invoked[2].at - invoked[1].at >= delay_ms

\* C9: on Reddit.queue (burst limiter, '60 per minute') fed with normal tasks
\* that do not throw, every invocation that is followed by another one was
\* followed by a pacing delay first.
C9_RedditQueueNoBurst ==
  ( /\ variant = "burst"
    /\ requests_allowed = RedditQueue[1]
    /\ interval_ms = IntervalMs(RedditQueue[2])
    /\ \A t \in Tasks : ~pushed[t].priority /\ ~pushed[t].throws ) =>
    \A k \in Calls : k < Len(invoked) => invoked[k].delay = delay_ms

\* floor(requests_allowed * limit_after_percent)
BurstQuota ==
  (requests_allowed * limit_after_percent_num) \div limit_after_percent_den

\* C10 as stated: burst: the calls counted 1..floor(requests_allowed *
\* limit_after_percent) in their window are followed by no suspension, the
\* later ones by one of 2 * unit_ms / requests_allowed.
C10_BurstQuotaAsStated ==
  variant = "burst" =>
    \A k \in Calls :
      invoked[k].delay # NoTimer =>
        /\ invoked[k].made <= BurstQuota => invoked[k].delay = 0
        /\ invoked[k].made > BurstQuota =>
             /\ invoked[k].delay = delay_ms
             /\ delay_ms * requests_allowed = 2 * interval_ms

\* C10 amended: burst: a call is followed by no suspension iff, counted with
\* itself, requests_made / requests_allowed is still below
\* limit_after_percent (2 * requests_made < requests_allowed); every other
\* call is followed by a suspension of 2 * unit_ms / requests_allowed.
C10_BurstBelowHalf ==
  variant = "burst" =>
    \A k \in Calls :
      invoked[k].delay # NoTimer =>
        /\ 2 * invoked[k].made < requests_allowed => invoked[k].delay = 0
        /\ 2 * invoked[k].made >= requests_allowed =>
             /\ invoked[k].delay = delay_ms
             /\ delay_ms * requests_allowed = 2 * interval_ms

\* With 4 allowed, the first call of the window ran unsuspended and the
\* second, which reaches half of the quota, was followed by the suspension.
C10_Witness ==
  /\ variant = "burst"
  /\ requests_allowed = 4
  /\ Len(invoked) >= 2
  /\ invoked[1].made = 1 /\ invoked[1].delay = 0
  /\ invoked[2].made = 2 /\ invoked[2].delay = delay_ms

\* C11: burst: the quota reset is due at every multiple of the unit duration
\* on the clock, whatever the limiter is doing, and the step that runs it
\* sets requests_made to 0, re-arms the interval and changes nothing else.
C11_ResetDueOncePerUnit ==
  (variant = "burst" /\ now < MaxClock) =>
    /\ reset_timer \in 0..interval_ms
    /\ (now + reset_timer) % interval_ms = 0

C11_ResetStep ==
  (reset_timer = 0 /\ reset_timer' = interval_ms) =>
    /\ requests_made' = 0
    /\ UNCHANGED <<config, nodes, head, tail, priority_tail, is_running, loops,
                   now, pushed, invoked, push_threw>>

C11_QuotaResetFrame == [](C11_ResetDueOncePerUnit) /\ [][C11_ResetStep]_vars

\* The reset has run while the loop was suspended behind a counted call: the
\* counter is back at 0 and the suspension still has time to run.
C11_Witness ==
  /\ variant = "burst"
  /\ requests_made = 0
  /\ reset_timer = interval_ms
  /\ Len(loops) = 1 /\ loops[1].pc = "waiting" /\ loops[1].timer > 0
  /\ is_running /\ head # Undefined

\* Three normal tasks that return, all pushed at t = 0 on the fixed-delay
\* limiter built with "2 per second".
C12_ThreePushedAtZero ==
  /\ variant = "fixed" /\ requests_allowed = 2 /\ interval_ms = PerSecondMs
  /\ Len(pushed) = 3
  /\ \A t \in Tasks : ~pushed[t].priority /\ ~pushed[t].throws /\ pushed[t].at = 0

\* C12: then task 1 is invoked at 0 inside the first push, task 2 at 500 and
\* task 3 at 1000, none of them again, and the limiter goes idle when the
\* timer of the last delay fires, at 1500.
C12_Timeline ==
  C12_ThreePushedAtZero =>
    /\ Len(invoked) <= 3
    /\ \A k \in Calls : invoked[k].task = k /\ invoked[k].at = 500 * (k - 1)
    /\ invoked # << >> /\ invoked[1].seen = 1
    /\ ~is_running => now >= 1500
    /\ (is_running /\ now >= 1500) =>
         (Len(invoked) = 3 /\ loops[1].pc = "waiting" /\ loops[1].timer = 0)
    /\ ~is_running => (Len(invoked) = 3 /\ head = Undefined /\ loops = << >>)

C12_Witness ==
  /\ C12_ThreePushedAtZero
  /\ ~is_running
  /\ Len(invoked) = 3


\* ------------------------------------------------------------ C13, C14
\* The arguments the constructor was called with, read apart from the code:
\* the unit is valid when it is one of Units (for a rate string: when the
\* text after its first run of spaces is one of them).
ValidUnit(args) ==
  IF "text" \in DOMAIN args
    THEN \E u \in Units, i \in DOMAIN args.text :
           /\ args.text[i] = " "
           /\ \A j \in 1..i : args.text[j] = " " =>
                \A k \in j..i : args.text[k] = " "
           /\ SubSeq(args.text, i + 1, Len(args.text)) = CharsOf[u]
    ELSE args.interval \in Units

\* 2^i * (a - d_i * b) for the first i fraction bits d_i of the double d,
\* from t = 2^(i-1) * (a - d_(i-1) * b); it stops at 2 * b or -2 * b, from
\* where the error cannot come back within b.
RECURSIVE ScaledError(_, _, _)
ScaledError(t, bits, b) ==
  IF t >= 2 * b THEN 2 * b
  ELSE IF t <= 0 - 2 * b THEN 0 - 2 * b
  ELSE IF bits = << >> THEN t
  ELSE ScaledError(2 * t - Head(bits) * b, Tail(bits), b)

\* d * b = a in rational arithmetic.
ExactQuotient(d, a, b) ==
  ScaledError(a - d.whole * b, d.frac, b) = 0

\* d is a double nearest to a / b: |a - d * b| is at most half a unit in
\* the last place of d, times b.
NearestQuotient(d, a, b) ==
  LET n == DoubleBits - BitLen(d.whole)
      padded == d.frac \o [k \in 1..(n - Len(d.frac)) |-> 0]
      t == ScaledError(a - d.whole * b, padded, b)
  IN /\ d.whole >= 1
     /\ Len(d.frac) <= n
     /\ 2 * t <= b /\ 0 - b <= 2 * t

\* b divided by its largest power of two.
RECURSIVE OddPart(_)
OddPart(b) == IF b % 2 = 0 THEN OddPart(b \div 2) ELSE b

C13_ValidFixed ==
  /\ variant = "fixed"
  /\ ctor.state = "ok"
  /\ ~ctor.result.per_interval.nan
  /\ ctor.result.per_interval.value >= 1

\* C13 as stated: for every valid (count, unit) with count >= 1 the
\* fixed-delay limiter's delay_ms equals unit_ms / count exactly.
C13_DelayExact ==
  C13_ValidFixed =>
    /\ ctor.result.interval_ms \in
         {PerSecondMs, PerMinuteMs, PerHourMs, PerDayMs}
    /\ ExactQuotient(ctor.result.delay, ctor.result.interval_ms,
                     ctor.result.per_interval.value)

\* C13 as the code has it: delay_ms is the double nearest to
\* unit_ms / count; it equals unit_ms / count exactly when, and only when,
\* the quotient is a binary fraction (the odd part of count divides
\* unit_ms), and it is never cut to whole milliseconds.
C13_DelayNearestDouble ==
  C13_ValidFixed =>
    LET d == ctor.result.delay
        a == ctor.result.interval_ms
        b == ctor.result.per_interval.value
    IN /\ a \in {PerSecondMs, PerMinuteMs, PerHourMs, PerDayMs}
       /\ (ValidUnit(ctor.args) /\ "interval" \in DOMAIN ctor.args)
            => a = IntervalMs(ctor.args.interval)
       /\ d.kind = "finite"
       /\ NearestQuotient(d, a, b)
       /\ ExactQuotient(d, a, b) <=> (a % OddPart(b) = 0)
       /\ delay_ms = d.whole

C13_Witness ==
  /\ C13_ValidFixed
  /\ ctor.result.per_interval.value = 3
  /\ ctor.result.interval_ms = PerSecondMs
  /\ delay_ms = 333
  /\ ctor.result.delay.frac # << >>
  /\ ~ExactQuotient(ctor.result.delay, 1000, 3)

\* C14: construction with a unit outside Units throws 'Invalid duration'
\* (and with a unit inside Units it does not); after the throw no field has
\* been set, no interval timer has been started in either version, and no
\* push can be made on the limiter.
C14_InvalidUnitThrows ==
  ctor.state # "new" =>
    /\ (ctor.state = "threw") <=> ~ValidUnit(ctor.args)
    /\ ctor.state = "threw" =>
         /\ ~ctor.result.timer
         /\ reset_timer = NoTimer
         /\ ctor.result.delay.kind = "unset"
         /\ delay_ms = NoTimer /\ interval_ms = NoTimer
         /\ head = Undefined /\ ~is_running /\ loops = << >>
         /\ ~ENABLED (\E p \in BOOLEAN, t \in BOOLEAN : Push(p, t))
    /\ (ctor.state = "ok" /\ variant = "burst") =>
         (ctor.result.timer /\ reset_timer = interval_ms)

C14_Witness ==
  /\ variant = "burst"
  /\ ctor.state = "threw"
  /\ "text" \in DOMAIN ctor.args
  /\ Join(ctor.args.text) = "Invalid Spec"
  /\ reset_timer = NoTimer


\* ----------------------------------------------------------------- C15
C15_PushFindsItsPlace ==
  /\ ~push_threw
  /\ head # Undefined => tail \in DOMAIN nodes
  /\ priority_tail \in {Undefined} \cup DOMAIN nodes
  /\ tail \in {Undefined} \cup DOMAIN nodes

C15_PushStep ==
  pushed' # pushed =>
    /\ Len(pushed') = Len(pushed) + 1
    /\ Len(nodes') = Len(nodes) + 1
    /\ nodes'[Len(nodes')].fn = Len(pushed')
    /\ ~push_threw'
    /\ head' # Undefined \/ is_running'

\* C15: in every reachable state of a constructed limiter a push finds what
\* it dereferences (tail is set whenever head is, priority_tail is unset
\* or a node), and every push links a new node and returns without a
\* TypeError, also when the task it starts throws.
C15_PushCannotFail == [](C15_PushFindsItsPlace) /\ [][C15_PushStep]_vars

C15_Witness ==
  /\ Len(pushed) = 3
  /\ pushed[1].priority /\ pushed[1].throws
  /\ ~pushed[2].priority
  /\ pushed[3].priority
  /\ nodes[1].next = 3 /\ nodes[3].next = 2
  /\ ~push_threw


\* ------------------------------------------------------------ C16, C17
ApiCalls == DOMAIN api_calls
AuthCalls == DOMAIN auth_calls

C16_OneContinuationEach ==
  /\ Len(pushed) = Len(api_calls)
  /\ \A c \in ApiCalls :
       /\ api_calls[c].task \in Tasks
       /\ ~pushed[api_calls[c].task].priority
       /\ \A d \in ApiCalls : api_calls[d].task = api_calls[c].task => d = c
       /\ api_calls[c].issued => CallsOf(api_calls[c].task) # {}

C16_IssueStep ==
  \A c \in ApiCalls :
    (~api_calls[c].issued /\ api_calls'[c].issued) =>
      /\ \E k \in CallsOf(api_calls[c].task) :
           invoked[k].at = now /\ invoked[k].delay # NoTimer
      /\ UNCHANGED <<pushed, nodes, head, tail, invoked>>

C16_EventuallyIssued ==
  \A c \in 1..MaxPush :
    (c \in ApiCalls) ~> (c \in ApiCalls /\ api_calls[c].issued)

\* C16: every api_request call pushes one continuation of its own, as a
\* normal task, and nothing else is pushed to Reddit.queue; its HTTP request
\* is issued only once the limiter has invoked that continuation, at the
\* clock of the invocation; and every call's request is eventually issued.
C16_ApiRequestPaced ==
  /\ [](C16_OneContinuationEach)
  /\ [][C16_IssueStep]_vars
  /\ C16_EventuallyIssued

C16_Witness ==
  /\ Len(api_calls) = 3
  /\ \A c \in ApiCalls : api_calls[c].issued
  /\ pushed[3].at = 0
  /\ invoked[2].delay = delay_ms
  /\ Len(invoked) = 3 /\ invoked[3].task = 3 /\ invoked[3].at = MaxClock

C17_PendingStates ==
  /\ DOMAIN state_timers = pending_auth_states
  /\ pending_auth_states \subseteq 1..states_issued
  /\ \A a \in AuthCalls :
       /\ auth_calls[a].accepted =>
            /\ auth_calls[a].state \in 1..states_issued
            /\ auth_calls[a].state \notin pending_auth_states
            /\ \E c \in ApiCalls : /\ api_calls[c].task = auth_calls[a].task
                                   /\ api_calls[c].by = "auth"
       /\ ~auth_calls[a].accepted => auth_calls[a].task = 0
       /\ \A b \in AuthCalls :
            ( /\ a # b
              /\ auth_calls[a].state = auth_calls[b].state
              /\ auth_calls[a].accepted ) => ~auth_calls[b].accepted
  /\ Cardinality({c \in ApiCalls : api_calls[c].by = "auth"})
       = Cardinality({a \in AuthCalls : auth_calls[a].accepted})

C17_AuthStep ==
  auth_calls' # auth_calls =>
    LET a == auth_calls'[Len(auth_calls')] IN
    /\ Len(auth_calls') = Len(auth_calls) + 1
    /\ a.accepted <=> (a.state \in pending_auth_states)
    /\ ~a.accepted =>
         UNCHANGED <<pushed, nodes, head, tail, priority_tail, is_running,
                     loops, invoked, api_calls, pending_auth_states,
                     state_timers>>
    /\ a.accepted =>
         /\ pending_auth_states' = pending_auth_states \ {a.state}
         /\ a.state \notin DOMAIN state_timers'
         /\ Len(pushed') = Len(pushed) + 1
         /\ a.task = Len(pushed')

C17_ExpiryStep ==
  \A s \in pending_auth_states :
    (s \notin pending_auth_states' /\ auth_calls' = auth_calls) =>
      (state_timers[s] = 0 /\ s \notin DOMAIN state_timers')

\* C17: auth({state, code}) is accepted exactly when the state is pending
\* at the call, i.e. was issued by auth_url_and_state and has neither
\* expired (its timer fired) nor been accepted before; a rejected call
\* pushes nothing and changes nothing; an accepted call removes the state
\* together with its expiry timer and queues one access-token request, so
\* no state is accepted twice.
C17_AuthNeedsPendingState ==
  /\ [](C17_PendingStates)
  /\ [][C17_AuthStep]_vars
  /\ [][C17_ExpiryStep]_vars

C17_Witness ==
  /\ states_issued = 1
  /\ Len(auth_calls) = 2
  /\ auth_calls[1].state = 1 /\ auth_calls[1].accepted
  /\ auth_calls[2].state = 1 /\ ~auth_calls[2].accepted
  /\ state_timers = << >>
  /\ Len(pushed) = 1

\* ------------------------------------------------------- C18, C19, C20
\* C18: whenever the queue is not empty, the priority nodes are a
\* contiguous prefix of the chain from head, the normal nodes are its
\* suffix, and tail is the last node of that chain.
C18_ChainInvariant ==
  head # Undefined =>
    LET c == ChainSeq(head) IN
    /\ \A i \in DOMAIN c, j \in DOMAIN c :
         (i < j /\ IsPriority(c[j])) => IsPriority(c[i])
    /\ tail = c[Len(c)]

\* C19: priority_tail is set exactly when a priority task is queued (its
\* node is in the chain from head), and when set it is a node of that
\* chain.
C19_PriorityTailTracksQueue ==
  /\ (priority_tail # Undefined) <=> (\E n \in Chain(head) : IsPriority(n))
  /\ priority_tail # Undefined => priority_tail \in Chain(head)

\* C20: while the drain loop is suspended in a pacing delay, head, if set,
\* is a task that has not been invoked yet.
C20_HeadIsNextWhileSuspended ==
  \A i \in DOMAIN loops :
    (loops[i].pc = "waiting" /\ head # Undefined) =>
      CallsOf(nodes[head].fn) = {}


\* ----------------------------------------------------------------- C21
\* C21: is_running is true exactly when a drain loop (a run() invocation
\* that has not ended) exists, also after a task has thrown.
C21_RunningIffLoopActive == is_running <=> (loops # << >>)


\* ----------------------------------------------------------------- C22
Idle ==
  /\ ~is_running
  /\ loops = << >>
  /\ head = Undefined /\ tail = Undefined /\ priority_tail = Undefined

C22_StoppedIsIdle == (loops = << >> /\ ~SomeTaskThrew) => Idle

\* C22: whatever was pushed before (normal and priority, in any order and
\* at any point of the drain), once pushes have ceased the drain loop stops
\* and the limiter is Idle from then on, with head, tail and priority_tail
\* unset, unless a task has thrown; and a loop that has stopped without a
\* throw has left the limiter Idle.
C22_DrainTerminates ==
  /\ [](C22_StoppedIsIdle)
  /\ <>[](Idle \/ SomeTaskThrew)

C22_Witness ==
  /\ Idle
  /\ Len(pushed) = 3
  /\ ~pushed[1].priority /\ pushed[2].priority /\ ~pushed[3].priority
  /\ pushed[2].at > pushed[1].at
  /\ Len(invoked) = 3
  /\ ~SomeTaskThrew


\* ----------------------------------------------------------------- C23
Waiting == {i \in DOMAIN loops : loops[i].pc = "waiting"}

\* The interval callback runs while a run() is suspended.
C23_ResetStep ==
  (variant = "burst" /\ Waiting # {} /\ reset_timer = 0
     /\ reset_timer' = interval_ms) =>
    /\ requests_made' = 0
    /\ loops' = loops
    /\ UNCHANGED <<head, tail, priority_tail, is_running, nodes, invoked, now>>

\* A suspension lasts delay_ms from the call it follows, reset or no reset.
C23_SuspensionRuns ==
  (variant = "burst" /\ now < MaxClock) =>
    \A i \in Waiting :
      /\ invoked[Len(invoked)].task = loops[i].task
      /\ invoked[Len(invoked)].delay = delay_ms
      /\ loops[i].timer = invoked[Len(invoked)].at + delay_ms - now

\* A call is counted from the requests_made it finds, and is followed by a
\* suspension exactly when its count reaches limit_after_percent.
C23_Counted ==
  variant = "burst" =>
    /\ \A k \in Calls :
         /\ invoked[k].made >= 1
         /\ invoked[k].delay \in
              {NoTimer, IF Throttled(invoked[k].made) THEN delay_ms ELSE 0}
    /\ invoked # << >> => requests_made \in {0, invoked[Len(invoked)].made}

C23_CallStep ==
  (variant = "burst" /\ Len(invoked') = Len(invoked) + 1) =>
    /\ invoked'[Len(invoked')].made = requests_made + 1
    /\ requests_made' = requests_made + 1

\* C23: burst version: the quota reset sets requests_made to 0 and leaves a
\* suspension in progress alone, which lasts its full delay_ms; the calls
\* after it are counted from 1 again and are followed by a suspension only
\* once requests_made / requests_allowed has reached limit_after_percent
\* anew.
C23_ResetKeepsSuspension ==
  /\ [](C23_SuspensionRuns /\ C23_Counted)
  /\ [][C23_ResetStep /\ C23_CallStep]_vars

C23_Witness ==
  /\ variant = "burst"
  /\ requests_allowed = 4
  /\ Len(invoked) = 3
  /\ invoked[2].made = 2 /\ invoked[2].delay = delay_ms
  /\ invoked[3].made = 1 /\ invoked[3].delay = 0
  /\ invoked[3].at = invoked[2].at + delay_ms
  /\ pushed[3].at = invoked[2].at


\* ----------------------------------------------------------------- C24
\* Every push so far was a normal push of a task that does not throw.
NormalOnly == \A t \in Tasks : ~pushed[t].priority /\ ~pushed[t].throws

C24_InPushOrder ==
  NormalOnly =>
    /\ Len(invoked) <= Len(pushed)
    /\ \A k \in Calls : invoked[k].task = k
    /\ ~is_running => Len(invoked) = Len(pushed)

C24_EachInvoked ==
  \A t \in 1..MaxPush :
    (t \in Tasks /\ NormalOnly) ~> (CallsOf(t) # {} \/ ~NormalOnly)

\* C24: while every push is a normal push of a task that does not throw, in
\* both versions the k-th call is the k-th pushed task (so each task is
\* invoked at most once and in push order), every pushed task is eventually
\* invoked, and all have been invoked when the limiter is idle.
C24_NormalOnlyFifo ==
  /\ [](C24_InPushOrder)
  /\ C24_EachInvoked

C24_Witness ==
  /\ NormalOnly
  /\ Len(pushed) = 3
  /\ pushed[1].at = 0 /\ pushed[2].at = 0 /\ pushed[3].at > 0
  /\ Len(invoked) = 3
  /\ invoked[2].at > 0
  /\ invoked[3].at > invoked[2].at
  /\ ~is_running

\* ------------------------------------------------------------------ C25
\* Access-token requests made by auth (first-time or refresh) whose caller
\* is still waiting: queued in the limiter, or issued and not yet answered.
InFlight ==
  {c \in DOMAIN api_calls :
     api_calls[c].by # "endpoint" /\ api_calls[c].answer = "none"}

\* No token-refresh timer is pending.
NoRefreshPending == DOMAIN refresh_timers = {}

\* C25: after logout() has returned and until auth() is called again,
\* bearer_token and refresh_token are unset and no token-refresh timer is
\* pending, whatever access-token request of an earlier auth() call was in
\* flight when logout ran.
C25_LogoutStaysLoggedOut ==
  logged_out =>
    /\ bearer_token = Undefined
    /\ refresh_token = Undefined
    /\ NoRefreshPending

\* logout() itself leaves both tokens unset and the timer of its handle
\* cleared, and while the instance stays logged out only the response of an
\* access-token request that was in flight changes the session: a grant sets
\* a token or arms a refresh timer.
C25_OnlyInFlightRevives ==
  [][/\ logouts' > logouts =>
          /\ bearer_token' = Undefined
          /\ refresh_token' = Undefined
          /\ refresh_token_timeout \notin DOMAIN refresh_timers'
     /\ (logged_out /\ logged_out' /\ logouts' = logouts /\
           (bearer_token' # bearer_token \/ refresh_token' # refresh_token \/
            DOMAIN refresh_timers' # DOMAIN refresh_timers)) =>
          \E c \in InFlight : api_calls'[c].answer # "none"
     /\ (logged_out /\ logged_out' /\
           (bearer_token' \notin {Undefined, bearer_token} \/
            refresh_token' \notin {Undefined, refresh_token} \/
            DOMAIN refresh_timers' \ DOMAIN refresh_timers # {})) =>
          \E c \in InFlight :
            /\ api_calls'[c].answer \in {"permanent", "temporary"}
            /\ bearer_token' = c]_vars

\* A logout overtaken by a response: the instance is logged out, and its
\* tokens and refresh timer come from a request made before the logout.
C25_Revived ==
  /\ logged_out
  /\ bearer_token # Undefined
  /\ refresh_token = bearer_token
  /\ refresh_token_timeout = bearer_token
  /\ bearer_token \in DOMAIN refresh_timers
  /\ api_calls[bearer_token].by = "auth"

================================================================
